---- MODULE Spec2Model ----
(***************************************************************************)
(* Model of the Gofile upload relay (src/app.py): the extension check,     *)
(* the server selector, the upload relay and the two upload routes.        *)
(*                                                                         *)
(* Text is modelled as a sequence of one-character strings, so that        *)
(* splitting, lower-casing, sanitising and formatting are computed         *)
(* character by character as the code does.                                *)
(***************************************************************************)
EXTENDS Integers, Sequences, FiniteSets, TLC

\* ---------------------------------------------------------------- bounds
\* longest generated file name (over Alphabet); SampleNames are added to them
MaxLen == 4

\* ------------------------------------------------------------- text helpers
UpperChars == <<"A", "B", "C", "D", "E", "F", "G", "H", "I", "J", "K", "L", "M", "N", "O", "P", "Q", "R", "S", "T", "U", "V", "W", "X", "Y", "Z">>
LowerChars == <<"a", "b", "c", "d", "e", "f", "g", "h", "i", "j", "k", "l", "m", "n", "o", "p", "q", "r", "s", "t", "u", "v", "w", "x", "y", "z">>
DigitChars == <<"0", "1", "2", "3", "4", "5", "6", "7", "8", "9">>

Range(s) == {s[i] : i \in 1..Len(s)}

\* str.lower() on one character
LowerChar(c) ==
    IF \E i \in 1..Len(UpperChars) : UpperChars[i] = c
    THEN LowerChars[CHOOSE i \in 1..Len(UpperChars) : UpperChars[i] = c]
    ELSE c

\* str.lower()
Lower(s) == [i \in 1..Len(s) |-> LowerChar(s[i])]

\* str(n) for a non-negative integer
RECURSIVE IntToStr(_)
IntToStr(n) ==
    IF n < 10 THEN <<DigitChars[n + 1]>>
    ELSE IntToStr(n \div 10) \o <<DigitChars[(n % 10) + 1]>>

\* sub in s
Contains(s, sub) ==
    \E i \in 0..(Len(s) - Len(sub)) : SubSeq(s, i + 1, i + Len(sub)) = sub

\* filename.rsplit('.', 1)[1]: the text after the last '.'
RSplitDotLast(s) ==
    LET i == CHOOSE k \in 1..Len(s) : s[k] = "." /\ \A j \in (k + 1)..Len(s) : s[j] # "."
    IN  SubSeq(s, i + 1, Len(s))

\* ------------------------------------------------------------ allow-list
ALLOWED_EXTENSIONS == {
    <<"t", "x", "t">>,
    <<"p", "d", "f">>,
    <<"p", "n", "g">>,
    <<"j", "p", "g">>,
    <<"j", "p", "e", "g">>,
    <<"g", "i", "f">>,
    <<"d", "o", "c">>,
    <<"d", "o", "c", "x">>,
    <<"x", "l", "s">>,
    <<"x", "l", "s", "x">>,
    <<"z", "i", "p">>,
    <<"r", "a", "r">>,
    <<"7", "z">>,
    <<"m", "p", "3">>,
    <<"m", "p", "4">>,
    <<"a", "v", "i">> }

allowed_file(filename) ==
    "." \in Range(filename) /\ Lower(RSplitDotLast(filename)) \in ALLOWED_EXTENSIONS

\* ------------------------------------------------- werkzeug secure_filename
\* (the inputs of the model are ASCII, so the NFKD/ascii-ignore pass keeps them)
Whitespace == {" "}
PathSeps   == {"/"}
KeepChars  == Range(UpperChars) \cup Range(LowerChars) \cup Range(DigitChars) \cup {"_", ".", "-"}
StripChars == {".", "_"}

ReplaceSeps(s) == [i \in 1..Len(s) |-> IF s[i] \in PathSeps THEN " " ELSE s[i]]

\* "_".join(s.split()): drop leading/trailing whitespace, runs of it become one "_"
RECURSIVE JoinSplit(_, _, _)
JoinSplit(s, acc, pending) ==
    IF s = <<>> THEN acc
    ELSE IF Head(s) \in Whitespace
         THEN JoinSplit(Tail(s), acc, acc # <<>>)
         ELSE JoinSplit(Tail(s), (IF pending THEN acc \o <<"_">> ELSE acc) \o <<Head(s)>>, FALSE)

\* _filename_ascii_strip_re.sub("", s)
AsciiStrip(s) == SelectSeq(s, LAMBDA c : c \in KeepChars)

\* s.strip("._")
RECURSIVE LStrip(_)
LStrip(s) == IF s # <<>> /\ Head(s) \in StripChars THEN LStrip(Tail(s)) ELSE s
RECURSIVE RStrip(_)
RStrip(s) == IF s # <<>> /\ s[Len(s)] \in StripChars THEN RStrip(SubSeq(s, 1, Len(s) - 1)) ELSE s

secure_filename(name) == RStrip(LStrip(AsciiStrip(JoinSplit(ReplaceSeps(name), <<>>, FALSE))))

\* ------------------------------------------------------------- file names
Alphabet == {"7", "z", "."}

RECURSIVE SeqsUpTo(_)
SeqsUpTo(n) ==
    IF n = 0 THEN {<<>>}
    ELSE LET shorter == SeqsUpTo(n - 1)
         IN  shorter \cup {Append(s, c) : s \in {t \in shorter : Len(t) = n - 1}, c \in Alphabet}

SampleNames == {
    <<"p", "h", "o", "t", "o", ".", "p", "n", "g">>,
    <<"R", "e", "p", "o", "r", "t", ".", "P", "D", "F">>,
    <<"a", "r", "c", "h", "i", "v", "e", ".", "t", "a", "r", ".", "g", "z">>,
    <<"e", "v", "i", "l", ".", "e", "x", "e">>,
    <<"n", "o", "e", "x", "t">>,
    <<"m", "y", " ", "f", "i", "l", "e", ".", "t", "x", "t">>,
    <<".", ".", "/", ".", ".", "/", "a", "/", "b", ".", "J", "P", "G">>,
    <<"#", ".", "t", "x", "t">> }

FileNames == SeqsUpTo(MaxLen) \cup SampleNames

\* ------------------------------------------------- provider responses
\* A JSON object is a record whose DOMAIN is the set of keys present.
EmptyObj == [k \in {} |-> 0]

store1 == <<"s", "t", "o", "r", "e", "1">>
store3 == <<"s", "t", "o", "r", "e", "3">>
store5 == <<"s", "t", "o", "r", "e", "5">>

HTTP_OK == 200
StatusCodes == {200, 404, 503}

NoResponse == [kind |-> "none"]
NetworkError == [kind |-> "neterr"]
Http(code, body) == [kind |-> "http", code |-> code, body |-> body]
Malformed == [json |-> "malformed"]
JsonArray == [json |-> "array"]
JsonObj(o) == [json |-> "object", obj |-> o]

\* bodies GET https://api.gofile.io/servers may answer with
ServersBodies ==
    { Malformed, JsonArray, JsonObj(EmptyObj),
      JsonObj([status |-> "error"]),
      JsonObj([status |-> "error", data |-> [servers |-> <<[name |-> store3]>>]]),
      JsonObj([status |-> "ok"]),
      JsonObj([status |-> "ok", data |-> EmptyObj]),
      JsonObj([status |-> "ok", data |-> [servers |-> <<>>]]),
      JsonObj([status |-> "ok", data |-> [servers |-> <<EmptyObj>>]]),
      JsonObj([status |-> "ok", data |-> [servers |-> <<[name |-> store3]>>]]),
      JsonObj([status |-> "ok", data |-> [servers |-> <<[name |-> store5], [name |-> store3]>>]]),
      JsonObj([status |-> "ok", data |-> [servers |-> <<[name |-> store1], [name |-> store5]>>]]) }

ServersResponses == {NetworkError} \cup {Http(c, b) : c \in StatusCodes, b \in ServersBodies}

FileIdA == <<"a", "b", "c", "1", "2", "3">>
FileIdB == <<"Z", "x", "9">>
PageA == <<"h", "t", "t", "p", "s", ":", "/", "/", "g", "o", "f", "i", "l", "e", ".", "i", "o", "/", "d", "/", "a", "b", "c", "1", "2", "3">>
PageB == <<"h", "t", "t", "p", "s", ":", "/", "/", "g", "o", "f", "i", "l", "e", ".", "i", "o", "/", "d", "/", "Z", "x", "9">>
ProviderName == <<"r", "e", "n", "a", "m", "e", "d", ".", "b", "i", "n">>

\* bodies POST https://{server}.gofile.io/uploadFile may answer with
UploadBodies ==
    { Malformed, JsonArray, JsonObj(EmptyObj),
      JsonObj([status |-> "error"]),
      JsonObj([status |-> "error", data |-> [fileId |-> FileIdA, size |-> 42, downloadPage |-> PageA]]),
      JsonObj([status |-> "ok"]),
      JsonObj([status |-> "ok", data |-> EmptyObj]),
      JsonObj([status |-> "ok", data |-> [fileId |-> FileIdA]]),
      JsonObj([status |-> "ok", data |-> [downloadPage |-> PageA, size |-> 42]]),
      JsonObj([status |-> "ok", data |-> [fileId |-> FileIdA, downloadPage |-> PageA]]),
      JsonObj([status |-> "ok", data |-> [fileId |-> FileIdA, size |-> 42, downloadPage |-> PageA]]),
      JsonObj([status |-> "ok", data |-> [fileId |-> FileIdB, size |-> 0, downloadPage |-> PageB]]),
      JsonObj([status |-> "ok", data |-> [fileId |-> FileIdB, size |-> 7, downloadPage |-> PageB,
                                          fileName |-> ProviderName]]) }

UploadResponses == {NetworkError} \cup {Http(c, b) : c \in StatusCodes, b \in UploadBodies}

\* ------------------------------------------------- exceptions and str(e)
Raise(msg) == [exc |-> TRUE, msg |-> msg]
Return(v)  == [exc |-> FALSE, ret |-> <<v>>]
FallThrough == [exc |-> FALSE, ret |-> <<>>]

KeyText == [status |-> <<"s", "t", "a", "t", "u", "s">>,
            data |-> <<"d", "a", "t", "a">>,
            servers |-> <<"s", "e", "r", "v", "e", "r", "s">>,
            name |-> <<"n", "a", "m", "e">>,
            fileId |-> <<"f", "i", "l", "e", "I", "d">>,
            downloadPage |-> <<"d", "o", "w", "n", "l", "o", "a", "d", "P", "a", "g", "e">>]
KeyError(k) == Raise(<<"'">> \o KeyText[k] \o <<"'">>)
ConnectionError == Raise(<<"C", "o", "n", "n", "e", "c", "t", "i", "o", "n", " ", "r", "e", "f", "u", "s", "e", "d">>)
JSONDecodeError == Raise(<<"E", "x", "p", "e", "c", "t", "i", "n", "g", " ", "v", "a", "l", "u", "e", ":", " ", "l", "i", "n", "e", " ", "1", " ", "c", "o", "l", "u", "m", "n", " ", "1", " ", "(", "c", "h", "a", "r", " ", "0", ")">>)
TypeError == Raise(<<"l", "i", "s", "t", " ", "i", "n", "d", "i", "c", "e", "s", " ", "m", "u", "s", "t", " ", "b", "e", " ", "i", "n", "t", "e", "g", "e", "r", "s", " ", "o", "r", " ", "s", "l", "i", "c", "e", "s", ",", " ", "n", "o", "t", " ", "s", "t", "r">>)
OSError == Raise(<<"[", "E", "r", "r", "n", "o", " ", "5", "]", " ", "I", "n", "p", "u", "t", "/", "o", "u", "t", "p", "u", "t", " ", "e", "r", "r", "o", "r">>)

\* ------------------------------------------------------- server selector
\* the body of the try block of get_gofile_server
get_gofile_server_try(response) ==
    IF response.kind = "neterr" THEN ConnectionError
    ELSE IF response.code # HTTP_OK THEN FallThrough
    ELSE IF response.body.json = "malformed" THEN JSONDecodeError
    ELSE IF response.body.json = "array" THEN TypeError
    ELSE LET data == response.body.obj IN
         IF "status" \notin DOMAIN data THEN KeyError("status")
         ELSE IF data.status # "ok" THEN FallThrough
         ELSE IF "data" \notin DOMAIN data THEN KeyError("data")
         ELSE IF "servers" \notin DOMAIN data.data THEN KeyError("servers")
         ELSE IF data.data.servers = <<>> THEN FallThrough
         ELSE IF "name" \notin DOMAIN data.data.servers[1] THEN KeyError("name")
         ELSE Return(data.data.servers[1].name)

get_gofile_server_any_status(response) ==
    LET b == response.body
    IN  IF response.kind = "http" /\ response.code = HTTP_OK /\ b.json = "object"
           /\ "data" \in DOMAIN b.obj /\ "servers" \in DOMAIN b.obj.data
           /\ b.obj.data.servers # <<>> /\ "name" \in DOMAIN b.obj.data.servers[1]
        THEN b.obj.data.servers[1].name
        ELSE store1

get_gofile_server(response) ==
    LET r == get_gofile_server_try(response)
    IN  IF r.exc THEN store1              \* except: log, then the fallback return
        ELSE IF r.ret # <<>> THEN r.ret[1]
        ELSE store1

\* ----------------------------------------------------------- upload relay
UploadUrl(server) == <<"h", "t", "t", "p", "s", ":", "/", "/">> \o server \o <<".", "g", "o", "f", "i", "l", "e", ".", "i", "o", "/", "u", "p", "l", "o", "a", "d", "F", "i", "l", "e">>

DirectLinkDefaultServer(server, fileId, filename) ==
    <<"h", "t", "t", "p", "s", ":", "/", "/">> \o store1 \o <<".", "g", "o", "f", "i", "l", "e", ".", "i", "o", "/", "d", "o", "w", "n", "l", "o", "a", "d", "/">> \o fileId \o <<"/">> \o filename

DirectLink(server, fileId, filename) ==
    <<"h", "t", "t", "p", "s", ":", "/", "/">> \o server \o <<".", "g", "o", "f", "i", "l", "e", ".", "i", "o", "/", "d", "o", "w", "n", "l", "o", "a", "d", "/">> \o fileId \o <<"/">> \o filename

Failure(msg) == [success |-> FALSE, error |-> msg]

StatusFailureNoCode(code) == Failure(<<"U", "p", "l", "o", "a", "d", " ", "f", "a", "i", "l", "e", "d", " ", "w", "i", "t", "h", " ", "s", "t", "a", "t", "u", "s", " ">>)

StatusFailure(code) == Failure(<<"U", "p", "l", "o", "a", "d", " ", "f", "a", "i", "l", "e", "d", " ", "w", "i", "t", "h", " ", "s", "t", "a", "t", "u", "s", " ">> \o IntToStr(code))

UnknownUploadError == Failure(<<"U", "n", "k", "n", "o", "w", "n", " ", "u", "p", "l", "o", "a", "d", " ", "e", "r", "r", "o", "r">>)

SuccessResultSizeZero(server, filename, file_data) ==
    [success |-> TRUE,
     direct_link |-> DirectLink(server, file_data.fileId, filename),
     file_id |-> file_data.fileId,
     file_name |-> filename,
     size |-> 0,
     download_page |-> file_data.downloadPage]

SuccessResult(server, filename, file_data) ==
    [success |-> TRUE,
     direct_link |-> DirectLink(server, file_data.fileId, filename),
     file_id |-> file_data.fileId,
     file_name |-> filename,
     size |-> IF "size" \in DOMAIN file_data THEN file_data.size ELSE 0,
     download_page |-> file_data.downloadPage]

\* data['status'] == 'ok' of upload_to_gofile
upload_status_ok_always(data) == TRUE

upload_status_ok(data) == data.status = "ok"

\* the body of the try block of upload_to_gofile, from open() on
upload_to_gofile_try(server, filename, opened, response) ==
    IF ~opened THEN OSError
    ELSE IF response.kind = "neterr" THEN ConnectionError
    ELSE IF response.code # HTTP_OK THEN Return(StatusFailure(response.code))
    ELSE IF response.body.json = "malformed" THEN JSONDecodeError
    ELSE IF response.body.json = "array" THEN TypeError
    ELSE LET data == response.body.obj IN
         IF "status" \notin DOMAIN data THEN KeyError("status")
         ELSE IF ~upload_status_ok(data) THEN FallThrough
         ELSE IF "data" \notin DOMAIN data THEN KeyError("data")
         ELSE IF "fileId" \notin DOMAIN data.data THEN KeyError("fileId")
         ELSE IF "downloadPage" \notin DOMAIN data.data THEN KeyError("downloadPage")
         ELSE Return(SuccessResult(server, filename, data.data))

Raised == [raised |-> TRUE]

upload_to_gofile_no_except(server, filename, opened, response) ==
    LET r == upload_to_gofile_try(server, filename, opened, response)
    IN  IF r.exc THEN Raised
        ELSE IF r.ret # <<>> THEN r.ret[1]
        ELSE UnknownUploadError

upload_to_gofile(server, filename, opened, response) ==
    LET r == upload_to_gofile_try(server, filename, opened, response)
    IN  IF r.exc THEN Failure(r.msg)      \* except Exception as e: str(e)
        ELSE IF r.ret # <<>> THEN r.ret[1]
        ELSE UnknownUploadError

\* ------------------------------------------------------------------ state
VARIABLES
    route,         \* the inbound route of the request
    hasFile,       \* 'file' in request.files
    rawName,       \* file.filename as sent by the client
    pc,            \* position of the handler
    filename,      \* secure_filename(file.filename)
    tempDir,       \* the directory made by tempfile.mkdtemp() exists
    tempFile,      \* the file at temp_path exists
    server,        \* the ServerName selected for this request
    serversResp,   \* outcome of the discovery GET (local to get_gofile_server)
    uploadResp,    \* outcome of the upload POST
    calls,         \* outbound HTTP calls issued so far, in order
    result,        \* what upload_to_gofile returned
    httpResponse   \* what the handler answered

vars == <<route, hasFile, rawName, pc, filename, tempDir, tempFile, server,
          serversResp, uploadResp, calls, result, httpResponse>>

Routes == {"/upload", "/api/upload"}
NoResult == [pending |-> TRUE]
ServersUrl == <<"h", "t", "t", "p", "s", ":", "/", "/", "a", "p", "i", ".", "g", "o", "f", "i", "l", "e", ".", "i", "o", "/", "s", "e", "r", "v", "e", "r", "s">>

Init ==
    /\ route \in Routes
    /\ hasFile \in BOOLEAN
    /\ rawName \in (IF hasFile THEN FileNames ELSE {<<>>})
    /\ pc = "start"
    /\ filename = <<>>
    /\ tempDir = FALSE
    /\ tempFile = FALSE
    /\ server = <<>>
    /\ serversResp = NoResponse
    /\ uploadResp = NoResponse
    /\ calls = <<>>
    /\ result = NoResult
    /\ httpResponse = NoResponse

\* ---------------------------------------------------------- the responses
Redirect(flash, detail) == [kind |-> "redirect", flash |-> flash, detail |-> detail]
Html(r) == [kind |-> "html", success |-> TRUE, direct_link |-> r.direct_link,
            file_name |-> r.file_name, file_id |-> r.file_id,
            download_page |-> r.download_page]
Json(status, body) == [kind |-> "json", status |-> status, body |-> body]

\* except Exception as e, of each handler
HandlerExcept(msg) ==
    IF route = "/upload" THEN Redirect("Error processing upload: ", msg)
    ELSE Json(500, Failure(msg))

\* the response built from the relay's result
ApiResultResponseAlways200(r) == Json(200, r)

ApiResultResponse(r) == IF r.success THEN Json(200, r) ELSE Json(500, r)

UploadResultResponse(r) ==
    IF r.success THEN Html(r) ELSE Redirect("Upload failed: ", r.error)

\* ------------------------------------------------------------- the handlers
\* upload_file: the checks before the try block
\* (the flash text is kept as its fixed part; the joined allow-list is not spelled out)
upload_file_check ==
    /\ pc = "start" /\ route = "/upload"
    /\ IF ~hasFile \/ rawName = <<>>
       THEN /\ httpResponse' = Redirect("No file selected", <<>>)
            /\ pc' = "done"
       ELSE IF ~allowed_file(rawName)
       THEN /\ httpResponse' = Redirect("File type not allowed. Allowed types: ", <<>>)
            /\ pc' = "done"
       ELSE /\ httpResponse' = httpResponse
            /\ pc' = "save"
    /\ UNCHANGED <<route, hasFile, rawName, filename, tempDir, tempFile, server,
                   serversResp, uploadResp, calls, result>>

\* api_upload: the checks before the try block
api_upload_check ==
    /\ pc = "start" /\ route = "/api/upload"
    /\ IF ~hasFile
       THEN /\ httpResponse' = Json(400, Failure(<<"N", "o", " ", "f", "i", "l", "e", " ", "p", "r", "o", "v", "i", "d", "e", "d">>))
            /\ pc' = "done"
       ELSE IF rawName = <<>>
       THEN /\ httpResponse' = Json(400, Failure(<<"E", "m", "p", "t", "y", " ", "f", "i", "l", "e", "n", "a", "m", "e">>))
            /\ pc' = "done"
       ELSE /\ httpResponse' = httpResponse
            /\ pc' = "save"
    /\ UNCHANGED <<route, hasFile, rawName, filename, tempDir, tempFile, server,
                   serversResp, uploadResp, calls, result>>

\* secure_filename, tempfile.mkdtemp, file.save(temp_path)
\*   mkdtemp may raise (nothing created); file.save raises when temp_path is
\*   the directory itself (empty sanitized name) and may raise on I/O errors,
\*   leaving the directory and possibly a partial file behind.
save_temp ==
    /\ pc = "save"
    /\ filename' = secure_filename(rawName)
    /\ \E mkdtempOk \in BOOLEAN, saveOk \in BOOLEAN, partial \in BOOLEAN :
         IF ~mkdtempOk
         THEN /\ tempDir' = FALSE /\ tempFile' = FALSE
              /\ httpResponse' = HandlerExcept(OSError.msg)
              /\ pc' = "done"
         ELSE IF filename' = <<>> \/ ~saveOk
         THEN /\ tempDir' = TRUE
              /\ tempFile' = (filename' # <<>> /\ partial)
              /\ httpResponse' = HandlerExcept(OSError.msg)
              /\ pc' = "done"
         ELSE /\ tempDir' = TRUE /\ tempFile' = TRUE
              /\ httpResponse' = httpResponse
              /\ pc' = "select"
    /\ UNCHANGED <<route, hasFile, rawName, server, serversResp, uploadResp, calls, result>>

\* upload_to_gofile: server = get_gofile_server()
select_server ==
    /\ pc = "select"
    /\ \E response \in ServersResponses :
         /\ serversResp' = response
         /\ server' = get_gofile_server(response)
    /\ calls' = Append(calls, [method |-> "GET", url |-> ServersUrl, part |-> <<>>])
    /\ pc' = "post"
    /\ UNCHANGED <<route, hasFile, rawName, filename, tempDir, tempFile, uploadResp,
                   result, httpResponse>>

\* a relay that posts again after a transport error
post_file_retry ==
    /\ pc = "post"
    /\ Len(calls) < 4
    /\ serversResp' = NoResponse
    /\ \E response \in UploadResponses :
         /\ uploadResp' = response
         /\ pc' = IF response = NetworkError THEN "post" ELSE "parse"
    /\ calls' = Append(calls, [method |-> "POST", url |-> UploadUrl(server), part |-> filename])
    /\ UNCHANGED <<route, hasFile, rawName, filename, tempDir, tempFile, server, result,
                   httpResponse>>

\* upload_to_gofile: open(file_path, 'rb') and requests.post(upload_url, files=files)
post_file ==
    /\ pc = "post"
    /\ serversResp' = NoResponse
    /\ \E opened \in BOOLEAN :
         IF ~opened
         THEN /\ result' = upload_to_gofile(server, filename, FALSE, NoResponse)
              /\ pc' = "cleanup"
              /\ UNCHANGED <<uploadResp, calls>>
         ELSE /\ \E response \in UploadResponses : uploadResp' = response
              /\ calls' = Append(calls, [method |-> "POST", url |-> UploadUrl(server),
                                         part |-> filename])
              /\ pc' = "parse"
              /\ UNCHANGED result
    /\ UNCHANGED <<route, hasFile, rawName, filename, tempDir, tempFile, server, httpResponse>>

\* upload_to_gofile: from the status check to the return
parse_response ==
    /\ pc = "parse"
    /\ result' = upload_to_gofile(server, filename, TRUE, uploadResp)
    /\ pc' = "cleanup"
    /\ UNCHANGED <<route, hasFile, rawName, filename, tempDir, tempFile, server,
                   serversResp, uploadResp, calls, httpResponse>>

\* os.remove(temp_path); os.rmdir(temp_dir); then the response
\* (an exception out of upload_to_gofile would skip both and reach the except)
finish(resp) ==
    /\ pc = "cleanup"
    /\ IF "raised" \in DOMAIN result
       THEN /\ httpResponse' = HandlerExcept(<<>>)
            /\ UNCHANGED <<tempDir, tempFile>>
       ELSE /\ httpResponse' = resp
            /\ tempFile' = FALSE
            /\ tempDir' = FALSE
    /\ pc' = "done"
    /\ UNCHANGED <<route, hasFile, rawName, filename, server, serversResp, uploadResp,
                   calls, result>>

upload_file_finish == route = "/upload" /\ finish(UploadResultResponse(result))

api_upload_finish == route = "/api/upload" /\ finish(ApiResultResponse(result))

Next ==
    \/ upload_file_check
    \/ api_upload_check
    \/ save_temp
    \/ select_server
    \/ post_file
    \/ parse_response
    \/ upload_file_finish
    \/ api_upload_finish

Spec == Init /\ [][Next]_vars

\* =================================================================
\* Properties
\* =================================================================
Done == pc = "done"
Returned == result # NoResult
IsSuccess == Returned /\ "success" \in DOMAIN result /\ result.success
Methods == [i \in 1..Len(calls) |-> calls[i].method]

\* the extension test as the specification words it
LastDot(s) == CHOOSE k \in 1..Len(s) : s[k] = "." /\ \A j \in (k + 1)..Len(s) : s[j] # "."
Disallowed(name) ==
    \/ \A i \in 1..Len(name) : name[i] # "."
    \/ Lower(SubSeq(name, LastDot(name) + 1, Len(name))) \notin ALLOWED_EXTENSIONS

AnsweredFailure ==
    \/ httpResponse.kind = "redirect"
    \/ httpResponse.kind = "json" /\ ~httpResponse.body.success

\* C1: a request whose file name has no '.' or whose last extension token is
\* outside the allow-list makes no outbound HTTP call and is answered with a
\* failure, on /upload and on /api/upload alike.
C1_DisallowedNeverCalls ==
    (hasFile /\ Disallowed(rawName)) =>
        /\ calls = <<>>
        /\ Done => AnsweredFailure

\* a discovery answer the selector takes a server from
DiscoveryGood(r) ==
    /\ r.kind = "http" /\ r.code = 200
    /\ r.body.json = "object"
    /\ {"status", "data"} \subseteq DOMAIN r.body.obj
    /\ r.body.obj.status = "ok"
    /\ "servers" \in DOMAIN r.body.obj.data
    /\ Len(r.body.obj.data.servers) > 0
    /\ "name" \in DOMAIN r.body.obj.data.servers[1]

\* C2: the selector always yields a server name: the first listed name exactly
\* when discovery answered 200 with a well-formed body whose status is "ok" and
\* whose server list is non-empty, and "store1" for every other outcome.
C2_SelectServer ==
    (pc = "post") =>
        /\ server # <<>>
        /\ DiscoveryGood(serversResp) => server = serversResp.body.obj.data.servers[1].name
        /\ ~DiscoveryGood(serversResp) => server = <<"s", "t", "o", "r", "e", "1">>

C2_Witness ==
    /\ pc = "post"
    /\ DiscoveryGood(serversResp)
    /\ Len(serversResp.body.obj.data.servers) = 2
    /\ server = <<"s", "t", "o", "r", "e", "5">>

ExpectedLink(s, id, name) == <<"h", "t", "t", "p", "s", ":", "/", "/">> \o s \o <<".", "g", "o", "f", "i", "l", "e", ".", "i", "o", "/", "d", "o", "w", "n", "l", "o", "a", "d", "/">> \o id \o <<"/">> \o name
ExpectedUploadUrl(s) == <<"h", "t", "t", "p", "s", ":", "/", "/">> \o s \o <<".", "g", "o", "f", "i", "l", "e", ".", "i", "o", "/", "u", "p", "l", "o", "a", "d", "F", "i", "l", "e">>

\* C3: on Success the direct link is https://{server}.gofile.io/download/{fileId}/{filename}
\* with the server that was selected and used in the POST URL, the provider's
\* fileId and the sanitized file name sent as the multipart part's name.
C3_DirectLink ==
    IsSuccess =>
        /\ Len(calls) = 2
        /\ calls[2].method = "POST"
        /\ calls[2].url = ExpectedUploadUrl(server)
        /\ calls[2].part = secure_filename(rawName)
        /\ result.direct_link =
               ExpectedLink(server, uploadResp.body.obj.data.fileId, calls[2].part)

C3_Witness ==
    /\ IsSuccess
    /\ server = <<"s", "t", "o", "r", "e", "3">>
    /\ rawName = <<"p", "h", "o", "t", "o", ".", "p", "n", "g">>
    /\ result.direct_link = <<"h", "t", "t", "p", "s", ":", "/", "/", "s", "t", "o", "r", "e", "3", ".", "g", "o", "f", "i", "l", "e", ".", "i", "o", "/", "d", "o", "w", "n", "l", "o", "a", "d", "/", "a", "b", "c", "1", "2", "3", "/", "p", "h", "o", "t", "o", ".", "p", "n", "g">>

\* C4: every HTTP status other than 200 of the upload POST gives a Failure whose
\* message contains the status code, whatever the body.
C4_StatusInMessage ==
    (Returned /\ uploadResp.kind = "http" /\ uploadResp.code # 200) =>
        /\ "success" \in DOMAIN result /\ ~result.success
        /\ Contains(result.error, IntToStr(uploadResp.code))

C4_Witness ==
    /\ Returned
    /\ uploadResp.kind = "http" /\ uploadResp.code = 503
    /\ uploadResp.body.json = "object"
    /\ ~result.success
    /\ Contains(result.error, <<"5", "0", "3">>)

\* an upload answer that carries everything a Success needs
UploadGood(r) ==
    /\ r.kind = "http" /\ r.code = 200
    /\ r.body.json = "object"
    /\ {"status", "data"} \subseteq DOMAIN r.body.obj
    /\ r.body.obj.status = "ok"
    /\ {"fileId", "downloadPage"} \subseteq DOMAIN r.body.obj.data

\* C5: Success only for HTTP 200 with well-formed JSON, status "ok" and a data
\* object carrying fileId and downloadPage; every other 200 answer is a Failure,
\* never a Success and never an exception.
C5_SuccessOnlyWhenGood ==
    Returned =>
        /\ "success" \in DOMAIN result
        /\ result.success => UploadGood(uploadResp)
        /\ (uploadResp.kind = "http" /\ uploadResp.code = 200 /\ ~UploadGood(uploadResp))
               => ~result.success

C5_Witness ==
    /\ Returned
    /\ uploadResp.kind = "http" /\ uploadResp.code = 200
    /\ uploadResp.body.json = "object"
    /\ "status" \in DOMAIN uploadResp.body.obj /\ uploadResp.body.obj.status = "error"
    /\ "data" \in DOMAIN uploadResp.body.obj
    /\ ~result.success

SuccessFields == {"success", "direct_link", "file_id", "file_name", "size", "download_page"}
FailureFields == {"success", "error"}

\* C6: whatever discovery and the POST did, the relay returns exactly one
\* variant: success with all five success fields and no error, or failure with
\* an error and none of the success fields; it never raises.
C6_ExactlyOneVariant ==
    /\ pc = "cleanup" => Returned
    /\ Returned =>
          \/ DOMAIN result = SuccessFields /\ result.success = TRUE
          \/ DOMAIN result = FailureFields /\ result.success = FALSE

C6_Witness ==
    /\ pc = "cleanup"
    /\ uploadResp = NetworkError
    /\ DOMAIN result = FailureFields /\ result.success = FALSE

UploadFailed ==
    \/ Returned /\ ~IsSuccess
    \/ hasFile /\ rawName # <<>> /\ ~Returned

ProviderData == uploadResp.body.obj.data

\* C8 (as stated): on Success fileId and size are the provider's values, size is
\* 0 only when the provider omitted it, and fileName is what the provider returned.
C8_Original ==
    IsSuccess =>
        /\ result.file_id = ProviderData.fileId
        /\ "size" \in DOMAIN ProviderData => result.size = ProviderData.size
        /\ result.size = 0 => "size" \notin DOMAIN ProviderData
        /\ "fileName" \in DOMAIN ProviderData => result.file_name = ProviderData.fileName

\* C8 (amended): on Success fileId and size are the provider's values, size
\* being 0 when the provider omitted it, and fileName is the sanitized name
\* that was sent to the provider.
C8_ProviderFields ==
    IsSuccess =>
        /\ result.file_id = ProviderData.fileId
        /\ result.size = (IF "size" \in DOMAIN ProviderData THEN ProviderData.size ELSE 0)
        /\ result.file_name = calls[2].part
        /\ result.file_name = secure_filename(rawName)

C8_Witness ==
    /\ IsSuccess
    /\ "fileName" \in DOMAIN ProviderData
    /\ result.file_name # ProviderData.fileName
    /\ result.size = 7

\* C9: when the handler has answered, the temp file and the temp directory of
\* the request are gone, on every path.
C9_NoTempLeft == Done => (~tempDir /\ ~tempFile)

\* C10: per request at most one discovery GET and one upload POST, the POST only
\* after selection has completed, and nothing is issued after the POST (a failed
\* POST is terminal).
C10_Pipeline ==
    /\ [](/\ Methods \in {<<>>, <<"GET">>, <<"GET", "POST">>}
          /\ Len(calls) = 2 => (server # <<>> /\ calls[2].url = ExpectedUploadUrl(server))
          /\ Len(calls) >= 1 => pc \notin {"start", "save", "select"})
    /\ [][Len(calls) = 2 => calls' = calls]_vars

C10_Witness ==
    /\ Done
    /\ Methods = <<"GET", "POST">>
    /\ uploadResp = NetworkError
    /\ server = <<"s", "t", "o", "r", "e", "1">>

====
